---------------------------- MODULE Spec2Model ----------------------------
(***************************************************************************)
(* Session subsystem of backend_infra: app/services/session_service.py     *)
(* (SessionService: the in-memory cache active_sessions in front of the    *)
(* Firestore collection "sessions", with the user directory "users") and   *)
(* the session steps of the request handlers that call it.                 *)
(*                                                                         *)
(* Every method is an operator from the state before the call (a record w  *)
(* with the cache and the store), the arguments, the clock, a fresh uuid   *)
(* and the failures of the Firestore calls made during the call, to the    *)
(* state after the call and the value returned or the exception raised.    *)
(* One action per method applies the operator to the variables.            *)
(***************************************************************************)
EXTENDS Integers, Sequences, FiniteSets, TLC

(***************************************************************************)
(* Bounds of the model.                                                    *)
(***************************************************************************)
\* number of distinct session ids (uuid4 values) that may be issued
MaxSessions == 2
\* the clock datetime.now() takes the values 1..MaxTime, a later value in
\* every call that reads it: a run has at most MaxTime calls that read it
MaxTime == 2
\* get_user_history is called with limit in 0..MaxLimit
MaxLimit == 3

SessionIds == 1..MaxSessions
\* the empty session id "" of a request
NoSessionId == 0

\* users_collection: the documents of the user directory
users_collection == {"u1"}
\* user ids that requests carry: a registered user, the anonymous sentinel,
\* an unregistered user and the empty id
UserIds == {"u1", "anonymous", "ghost", ""}
\* the same without the empty id, which every method rejects on entry
NamedUserIds == UserIds \ {""}

CtxKeys == {"topic", "last_content_generation"}
CtxVals == {"v1", "v2"}
\* the context_update arguments tried
ContextUpdates == { <<>>, [k \in {"topic"} |-> "v2"] }

(***************************************************************************)
(* Failures of the Firestore calls.  A call site fails during an operation *)
(* when its flag is set; the flags are inputs of every action.             *)
(***************************************************************************)
FlagNames == {"users_get", "query", "create_set", "doc_get", "update", "set", "list"}
NoFail == [n \in FlagNames |-> FALSE]
\* the failure patterns in which only call sites of S fail
Flags(S) == {[n \in FlagNames |-> n \in T] : T \in SUBSET S}

(***************************************************************************)
(* datetime values and their ISO-8601 strings.                             *)
(***************************************************************************)
dt(n) == [type |-> "datetime", v |-> n]
isoformat(d) == [type |-> "str", v |-> d.v]
fromisoformat(s) == [type |-> "datetime", v |-> s.v]
\* datetime.fromisoformat(x) if isinstance(x, str) else x
parse_ts(x) == IF x.type = "str" THEN fromisoformat(x) ELSE x

Min(S) == CHOOSE x \in S : \A y \in S : x <= y

(***************************************************************************)
(* The cache active_sessions: a Python dict, which keeps insertion order,  *)
(* as the sequence of its values (each value carries its key session_id).  *)
(***************************************************************************)
CacheIndex(cache, sid) ==
    IF \E i \in 1..Len(cache) : cache[i].session_id = sid
    THEN CHOOSE i \in 1..Len(cache) : cache[i].session_id = sid
    ELSE 0

\* first value of active_sessions.values() owned by user_id, 0 if none
FindByUser(cache, user_id) ==
    IF \E i \in 1..Len(cache) : cache[i].user_id = user_id
    THEN Min({i \in 1..Len(cache) : cache[i].user_id = user_id})
    ELSE 0

\* a cache that holds one session: caching a session evicts the others
CachePut_evicts(cache, session) == <<session>>

\* a cache that puts a new session in front of the older ones
CachePut_prepends(cache, session) ==
    LET i == CacheIndex(cache, session.session_id)
    IN IF i = 0 THEN <<session>> \o cache ELSE [cache EXCEPT ![i] = session]

\* self.active_sessions[session.session_id] = session
CachePut(cache, session) ==
    LET i == CacheIndex(cache, session.session_id)
    IN IF i = 0 THEN Append(cache, session) ELSE [cache EXCEPT ![i] = session]

\* what a call yields: the state after it, the value returned (or the
\* exception raised), whether it drew a uuid4, whether it read the clock
Result(w, ret) == [w |-> w, ret |-> ret, created |-> FALSE, clock |-> FALSE]

Raise(w, exc, msg) == Result(w, [kind |-> "raise", exc |-> exc, msg |-> msg])

SessionRet(sid) == [kind |-> "session", session_id |-> sid]
NoneRet == [kind |-> "None"]
MessagesRet(messages) == [kind |-> "messages", messages |-> messages]
IdsRet(ids) == [kind |-> "ids", ids |-> ids]
ResponseRet(status, session_id) ==
    [kind |-> "response", status |-> status, session_id |-> session_id]

\* the cached session with this id (the object the methods return)
CacheGet(cache, sid) == cache[CacheIndex(cache, sid)]

\* user_exists answering True when the directory read fails
user_exists_fail_open(user_id, fl) ==
    IF user_id = "" THEN FALSE
    ELSE IF fl["users_get"] THEN TRUE
    ELSE user_id \in users_collection

(***************************************************************************)
(* SessionService.user_exists                                              *)
(***************************************************************************)
user_exists(user_id, fl) ==
    IF user_id = "" THEN FALSE
    ELSE IF fl["users_get"] THEN FALSE
    ELSE user_id \in users_collection

\* create_session whose except branch does not cache the session it returns
create_session_uncached_fallback(w, user_id, sid, t, fl) ==
    LET session == [session_id |-> sid, user_id |-> user_id,
                    created_at |-> dt(t), last_active |-> dt(t),
                    messages |-> <<>>, language_preference |-> "english",
                    context |-> <<>>]
        session_dict == [session EXCEPT !.created_at = isoformat(@),
                                        !.last_active = isoformat(@)]
    IN IF fl["create_set"]
       THEN [w |-> w, ret |-> SessionRet(sid), created |-> TRUE, clock |-> TRUE]
       ELSE [w |-> [active_sessions |-> CachePut(w.active_sessions, session),
                    store |-> (sid :> session_dict) @@ w.store],
             ret |-> SessionRet(sid), created |-> TRUE, clock |-> TRUE]

\* create_session that caches the session and never writes it to the store
create_session_no_store_write(w, user_id, sid, t, fl) ==
    LET session == [session_id |-> sid, user_id |-> user_id,
                    created_at |-> dt(t), last_active |-> dt(t),
                    messages |-> <<>>, language_preference |-> "english",
                    context |-> <<>>]
    IN [w |-> [active_sessions |-> CachePut(w.active_sessions, session),
               store |-> w.store],
        ret |-> SessionRet(sid), created |-> TRUE, clock |-> TRUE]

(***************************************************************************)
(* SessionService.create_session.  sid is the uuid4 drawn; the except      *)
(* branch draws another one, which is as fresh as the first.               *)
(***************************************************************************)
create_session(w, user_id, sid, t, fl) ==
    LET session == [session_id |-> sid, user_id |-> user_id,
                    created_at |-> dt(t), last_active |-> dt(t),
                    messages |-> <<>>, language_preference |-> "english",
                    context |-> <<>>]
        session_dict == [session EXCEPT !.created_at = isoformat(@),
                                        !.last_active = isoformat(@)]
    IN [w |-> [active_sessions |-> CachePut(w.active_sessions, session),
               store |-> IF fl["create_set"] THEN w.store
                         ELSE (sid :> session_dict) @@ w.store],
        ret |-> SessionRet(sid), created |-> TRUE, clock |-> TRUE]

\* hydrate leaving out the stored messages
hydrate_no_messages(session_id, session_data) ==
    [session_id |-> session_id,
     user_id |-> session_data.user_id,
     created_at |-> parse_ts(session_data.created_at),
     last_active |-> parse_ts(session_data.last_active),
     messages |-> <<>>,
     language_preference |-> session_data.language_preference,
     context |-> session_data.context]

\* hydrate giving the session a default owner instead of the stored one
hydrate_default_owner(session_id, session_data) ==
    [session_id |-> session_id,
     user_id |-> "anonymous",
     created_at |-> parse_ts(session_data.created_at),
     last_active |-> parse_ts(session_data.last_active),
     messages |-> [i \in 1..Len(session_data.messages) |->
                     [session_data.messages[i] EXCEPT !.timestamp = parse_ts(@)]],
     language_preference |-> session_data.language_preference,
     context |-> session_data.context]

\* the UserSession built from a document of the store (lines 69-85, 323-339)
hydrate(session_id, session_data) ==
    [session_id |-> session_id,
     user_id |-> session_data.user_id,
     created_at |-> parse_ts(session_data.created_at),
     last_active |-> parse_ts(session_data.last_active),
     messages |-> [i \in 1..Len(session_data.messages) |->
                     [session_data.messages[i] EXCEPT !.timestamp = parse_ts(@)]],
     language_preference |-> session_data.language_preference,
     context |-> session_data.context]

\* get_session validating every user id, "anonymous" included
get_session_no_bypass(w, user_id, sid, pick, t, fl) ==
    IF user_id = "" THEN Raise(w, "ValueError", "User ID cannot be empty")
    ELSE IF ~user_exists(user_id, fl)
    THEN Raise(w, "ValueError", "User does not exist")
    ELSE LET i == FindByUser(w.active_sessions, user_id)
         IN IF i # 0
            THEN Result(w, SessionRet(w.active_sessions[i].session_id))
            ELSE IF fl["query"]
            THEN create_session(w, user_id, sid, t, fl)
            ELSE LET session_docs == {d \in DOMAIN w.store : w.store[d].user_id = user_id}
                 IN IF session_docs # {}
                    THEN LET d == IF pick \in session_docs THEN pick
                                  ELSE Min(session_docs)
                         IN Result([active_sessions |->
                                      CachePut(w.active_sessions, hydrate(d, w.store[d])),
                                    store |-> w.store],
                                   SessionRet(d))
                    ELSE create_session(w, user_id, sid, t, fl)

(***************************************************************************)
(* SessionService.get_session.  The query where(user_id ==).limit(1)       *)
(* returns the matching document that is first in document-id order; the   *)
(* ids are uuid4 values, in no relation to the order of creation, so the   *)
(* document returned is any of the matching ones: pick if it matches.      *)
(***************************************************************************)
get_session(w, user_id, sid, pick, t, fl) ==
    IF user_id = "" THEN Raise(w, "ValueError", "User ID cannot be empty")
    ELSE IF user_id # "anonymous" /\ ~user_exists(user_id, fl)
    THEN Raise(w, "ValueError", "User does not exist")
    ELSE LET i == FindByUser(w.active_sessions, user_id)
         IN IF i # 0
            THEN Result(w, SessionRet(w.active_sessions[i].session_id))
            ELSE IF fl["query"]
            THEN create_session(w, user_id, sid, t, fl)
            ELSE LET session_docs == {d \in DOMAIN w.store : w.store[d].user_id = user_id}
                 IN IF session_docs # {}
                    THEN LET d == IF pick \in session_docs THEN pick
                                  ELSE Min(session_docs)
                         IN Result([active_sessions |->
                                      CachePut(w.active_sessions, hydrate(d, w.store[d])),
                                    store |-> w.store],
                                   SessionRet(d))
                    ELSE create_session(w, user_id, sid, t, fl)

(***************************************************************************)
(* SessionService.add_message.  The def on line 211 declares the           *)
(* parameters (self, session_id, message), while its body reads user_id,   *)
(* content, agent_type and metadata, and every caller (main_agent_service  *)
(* 103 and 111, worksheet_generator_service 135, visual_aids_service 67,   *)
(* hyper_local_content_service 79, ...) passes exactly these four as       *)
(* keywords: Python rejects the call with a TypeError before the body      *)
(* runs, so the call changes nothing.                                      *)
(***************************************************************************)
add_message(w, user_id, content, agent_type, metadata) ==
    Raise(w, "TypeError", "add_message() got an unexpected keyword argument 'user_id'")

\* Python's seq[start:] for any integer start
PySliceFrom(seq, start) ==
    LET n == Len(seq)
        lo == IF start < 0
              THEN (IF n + start < 0 THEN 0 ELSE n + start)
              ELSE (IF start > n THEN n ELSE start)
    IN SubSeq(seq, lo + 1, n)

(***************************************************************************)
(* SessionService.get_user_history                                         *)
(***************************************************************************)
\* line 280, on the messages of the session
history_slice(messages, limit) ==
    IF Len(messages) > limit THEN PySliceFrom(messages, 0 - limit) ELSE messages

\* lines 277-284, r being what get_session yielded
history_of(w, r, limit) ==
    IF r.ret.kind = "raise"
    THEN Result(w, MessagesRet(<<>>))
    ELSE [r EXCEPT !.ret = MessagesRet(
             history_slice(CacheGet(r.w.active_sessions, r.ret.session_id).messages, limit))]

get_user_history(w, user_id, limit, sid, pick, t, fl) ==
    history_of(w, get_session(w, user_id, sid, pick, t, fl), limit)

\* get_session_by_id without the ownership check on the document read
get_session_by_id_any_owner(w, session_id, user_id, fl) ==
    IF session_id = NoSessionId \/ user_id = ""
    THEN Result(w, NoneRet)
    ELSE IF CacheIndex(w.active_sessions, session_id) # 0
    THEN IF CacheGet(w.active_sessions, session_id).user_id = user_id
         THEN Result(w, SessionRet(session_id))
         ELSE Result(w, NoneRet)
    ELSE IF fl["doc_get"]
    THEN Result(w, NoneRet)
    ELSE IF session_id \in DOMAIN w.store
    THEN Result([active_sessions |->
                   CachePut(w.active_sessions, hydrate(session_id, w.store[session_id])),
                 store |-> w.store],
                SessionRet(session_id))
    ELSE Result(w, NoneRet)

\* get_session_by_id caching the document it read before it checks the owner
get_session_by_id_caches_foreign(w, session_id, user_id, fl) ==
    IF session_id = NoSessionId \/ user_id = ""
    THEN Result(w, NoneRet)
    ELSE IF CacheIndex(w.active_sessions, session_id) # 0
    THEN IF CacheGet(w.active_sessions, session_id).user_id = user_id
         THEN Result(w, SessionRet(session_id))
         ELSE Result(w, NoneRet)
    ELSE IF fl["doc_get"]
    THEN Result(w, NoneRet)
    ELSE IF session_id \in DOMAIN w.store
    THEN Result([active_sessions |->
                   CachePut(w.active_sessions, hydrate(session_id, w.store[session_id])),
                 store |-> w.store],
                IF w.store[session_id].user_id # user_id THEN NoneRet
                ELSE SessionRet(session_id))
    ELSE Result(w, NoneRet)

(***************************************************************************)
(* SessionService.get_session_by_id                                        *)
(***************************************************************************)
get_session_by_id(w, session_id, user_id, fl) ==
    IF session_id = NoSessionId \/ user_id = ""
    THEN Result(w, NoneRet)
    ELSE IF CacheIndex(w.active_sessions, session_id) # 0
    THEN IF CacheGet(w.active_sessions, session_id).user_id = user_id
         THEN Result(w, SessionRet(session_id))
         ELSE Result(w, NoneRet)
    ELSE IF fl["doc_get"]
    THEN Result(w, NoneRet)
    ELSE IF session_id \in DOMAIN w.store
    THEN IF w.store[session_id].user_id # user_id
         THEN Result(w, NoneRet)
         ELSE Result([active_sessions |->
                        CachePut(w.active_sessions, hydrate(session_id, w.store[session_id])),
                      store |-> w.store],
                     SessionRet(session_id))
    ELSE Result(w, NoneRet)

(***************************************************************************)
(* SessionService.get_session_history                                      *)
(***************************************************************************)
\* isoformat() of a datetime field, str() of anything else (lines 428-429)
iso_or_str(x) == IF x.type = "datetime" THEN isoformat(x) ELSE x

HistoryRet(session, limit) ==
    [kind |-> "history", status |-> "success",
     session_id |-> session.session_id, user_id |-> session.user_id,
     created_at |-> iso_or_str(session.created_at),
     last_active |-> iso_or_str(session.last_active),
     language_preference |-> session.language_preference,
     message_count |-> Len(session.messages),
     messages |-> history_slice(session.messages, limit),
     context_keys |-> DOMAIN session.context]

get_session_history(w, session_id, user_id, limit, fl) ==
    LET r == get_session_by_id(w, session_id, user_id, fl)
    IN IF r.ret.kind = "None" THEN r
       ELSE [r EXCEPT !.ret = HistoryRet(CacheGet(r.w.active_sessions, session_id), limit)]

(***************************************************************************)
(* SessionService.get_session_details                                      *)
(***************************************************************************)
\* lines 480-489: the session without its messages
DetailsRet(session) ==
    [kind |-> "details", status |-> "success",
     session_id |-> session.session_id, user_id |-> session.user_id,
     created_at |-> iso_or_str(session.created_at),
     last_active |-> iso_or_str(session.last_active),
     language_preference |-> session.language_preference,
     message_count |-> Len(session.messages),
     context_keys |-> DOMAIN session.context]

\* lines 493-498: the answer when get_session raised
DetailsError(user_id) ==
    [kind |-> "details", status |-> "error", session_id |-> NoSessionId,
     user_id |-> user_id, message_count |-> 0]

\* get_session_details marking the session it reads as active now
get_session_details_touches(w, user_id, sid, pick, t, fl) ==
    LET r == get_session(w, user_id, sid, pick, t, fl)
    IN IF r.ret.kind = "raise"
       THEN Result(w, DetailsError(user_id))
       ELSE LET i == CacheIndex(r.w.active_sessions, r.ret.session_id)
                touched == [r.w.active_sessions EXCEPT ![i].last_active = dt(t + 1)]
            IN [r EXCEPT !.w.active_sessions = touched,
                         !.ret = DetailsRet(touched[i])]

get_session_details(w, user_id, sid, pick, t, fl) ==
    LET r == get_session(w, user_id, sid, pick, t, fl)
    IN IF r.ret.kind = "raise"
       THEN Result(w, DetailsError(user_id))
       ELSE [r EXCEPT !.ret = DetailsRet(CacheGet(r.w.active_sessions, r.ret.session_id))]

\* clear_session writing the emptied copy without emptying the cached session
clear_of_keeps_messages(w, r, t, fl) ==
    IF r.ret.kind = "raise"
    THEN Result(w, ResponseRet("error", NoSessionId))
    ELSE LET id == r.ret.session_id
             i == CacheIndex(r.w.active_sessions, id)
             session_dict == [r.w.active_sessions[i] EXCEPT
                                !.messages = <<>>,
                                !.created_at = isoformat(@),
                                !.last_active = isoformat(dt(t))]
         IN [w |-> [active_sessions |-> r.w.active_sessions,
                    store |-> IF fl["set"] THEN r.w.store
                              ELSE (id :> session_dict) @@ r.w.store],
             ret |-> ResponseRet("success", id), created |-> r.created, clock |-> TRUE]

\* clear_session writing created_at where last_active belongs
clear_of_la_from_created(w, r, t, fl) ==
    IF r.ret.kind = "raise"
    THEN Result(w, ResponseRet("error", NoSessionId))
    ELSE LET id == r.ret.session_id
             i == CacheIndex(r.w.active_sessions, id)
             cache == [r.w.active_sessions EXCEPT ![i].messages = <<>>]
             session_dict == [cache[i] EXCEPT !.created_at = isoformat(@),
                                              !.last_active = isoformat(cache[i].created_at)]
         IN [w |-> [active_sessions |-> cache,
                    store |-> IF fl["set"] THEN r.w.store
                              ELSE (id :> session_dict) @@ r.w.store],
             ret |-> ResponseRet("success", id), created |-> r.created, clock |-> TRUE]

(***************************************************************************)
(* SessionService.clear_session                                            *)
(***************************************************************************)
\* clear_session resetting the context along with the messages
clear_of_resets_context(w, r, t, fl) ==
    IF r.ret.kind = "raise"
    THEN Result(w, ResponseRet("error", NoSessionId))
    ELSE LET id == r.ret.session_id
             i == CacheIndex(r.w.active_sessions, id)
             cache == [r.w.active_sessions EXCEPT ![i].messages = <<>>,
                                                  ![i].context = <<>>]
             session_dict == [cache[i] EXCEPT !.created_at = isoformat(@),
                                              !.last_active = isoformat(dt(t))]
         IN [w |-> [active_sessions |-> cache,
                    store |-> IF fl["set"] THEN r.w.store
                              ELSE (id :> session_dict) @@ r.w.store],
             ret |-> ResponseRet("success", id), created |-> r.created, clock |-> TRUE]

\* lines 373-391, r being what get_session yielded: the messages of the
\* cached session are emptied; last_active is set in the written copy only
clear_of(w, r, t, fl) ==
    IF r.ret.kind = "raise"
    THEN Result(w, ResponseRet("error", NoSessionId))
    ELSE LET id == r.ret.session_id
             i == CacheIndex(r.w.active_sessions, id)
             cache == [r.w.active_sessions EXCEPT ![i].messages = <<>>]
             session_dict == [cache[i] EXCEPT !.created_at = isoformat(@),
                                              !.last_active = isoformat(dt(t))]
         IN [w |-> [active_sessions |-> cache,
                    store |-> IF fl["set"] THEN r.w.store
                              ELSE (id :> session_dict) @@ r.w.store],
             ret |-> ResponseRet("success", id), created |-> r.created, clock |-> TRUE]

clear_session(w, user_id, sid, pick, t, fl) ==
    IF user_id = ""
    THEN Result(w, ResponseRet("error", NoSessionId))
    ELSE clear_of(w, get_session(w, user_id, sid, pick, t, fl), t, fl)

(***************************************************************************)
(* SessionService.update_session_context.  dict.update is a right-biased   *)
(* merge; DocumentReference.update raises NotFound when the document does  *)
(* not exist.                                                              *)
(***************************************************************************)
\* a merge that keeps the old value of a key present on both sides
dict_update_keep_old(context, context_update) == context @@ context_update

dict_update(context, context_update) == context_update @@ context

\* lines 180-209, r being the state with the session loaded (or not)
update_of(w, r, session_id, context_update, t, fl) ==
    IF r.ret.kind = "raise"
    THEN Result(w, NoneRet)
    ELSE LET i == CacheIndex(r.w.active_sessions, session_id)
         IN IF i = 0
            THEN [r EXCEPT !.ret = NoneRet]
            ELSE LET cache == [r.w.active_sessions EXCEPT
                                 ![i].context = dict_update(@, context_update),
                                 ![i].last_active = dt(t)]
                     updates == [context |-> cache[i].context,
                                 last_active |-> isoformat(cache[i].last_active)]
                 IN IF fl["update"] \/ session_id \notin DOMAIN r.w.store
                    THEN [w |-> [active_sessions |-> cache, store |-> r.w.store],
                          ret |-> NoneRet, created |-> r.created, clock |-> TRUE]
                    ELSE [w |-> [active_sessions |-> cache,
                                 store |-> [r.w.store EXCEPT
                                              ![session_id].context = updates.context,
                                              ![session_id].last_active = updates.last_active]],
                          ret |-> SessionRet(session_id), created |-> r.created,
                          clock |-> TRUE]

update_session_context(w, session_id, context_update, sid, pick, t, fl) ==
    IF CacheIndex(w.active_sessions, session_id) # 0
    THEN update_of(w, Result(w, NoneRet), session_id, context_update, t, fl)
    ELSE IF fl["doc_get"] \/ session_id \notin DOMAIN w.store
    THEN Result(w, NoneRet)
    ELSE update_of(w, get_session(w, w.store[session_id].user_id, sid, pick, t, fl),
                   session_id, context_update, t, fl)

(***************************************************************************)
(* SessionService.get_all_sessions_for_user.  The stream yields the        *)
(* documents in document-id order.                                         *)
(***************************************************************************)
RECURSIVE SortedSeq(_)
SortedSeq(S) == IF S = {} THEN <<>> ELSE <<Min(S)>> \o SortedSeq(S \ {Min(S)})

\* the listing without the user_id filter of the query
get_all_sessions_unfiltered(w, user_id, fl) ==
    IF user_id = ""
    THEN Result(w, IdsRet(<<>>))
    ELSE IF user_id # "anonymous" /\ ~user_exists(user_id, fl)
    THEN Result(w, IdsRet(<<>>))
    ELSE IF fl["list"]
    THEN Result(w, IdsRet(<<>>))
    ELSE Result(w, IdsRet(SortedSeq(DOMAIN w.store)))

get_all_sessions_for_user(w, user_id, fl) ==
    IF user_id = ""
    THEN Result(w, IdsRet(<<>>))
    ELSE IF user_id # "anonymous" /\ ~user_exists(user_id, fl)
    THEN Result(w, IdsRet(<<>>))
    ELSE IF fl["list"]
    THEN Result(w, IdsRet(<<>>))
    ELSE Result(w, IdsRet(SortedSeq({d \in DOMAIN w.store : w.store[d].user_id = user_id})))

(***************************************************************************)
(* Session steps of the request handlers.                                  *)
(***************************************************************************)
\* routes/worksheet.py generate_worksheet and generate_worksheet_pdf, and
\* WorksheetGeneratorService.generate_worksheet: get_session, and
\* create_session for the same user when get_session raises
worksheet_of(w, r, user_id, sid, t, fl) ==
    IF r.ret.kind = "raise" THEN create_session(w, user_id, sid, t, fl) ELSE r

worksheet_session_step(w, user_id, sid, pick, t, fl) ==
    IF user_id = ""
    THEN Result(w, NoneRet)
    ELSE worksheet_of(w, get_session(w, user_id, sid, pick, t, fl), user_id, sid, t, fl)

\* routes/content_analysis.py generate_content: get_session, an anonymous
\* session when it raises ValueError, then the context update
content_update_of(s, u) ==
    [w |-> u.w, ret |-> s.ret, created |-> s.created, clock |-> s.clock \/ u.clock]

content_of(s, value, pick, t, fl) ==
    content_update_of(s, update_session_context(s.w, s.ret.session_id,
                             [k \in {"last_content_generation"} |-> value],
                             NoSessionId, pick, t, fl))

generate_content_session_step(w, user_id, value, sid, pick, t, fl) ==
    IF user_id = ""
    THEN Result(w, NoneRet)
    ELSE content_of(worksheet_of(w, get_session(w, user_id, sid, pick, t, fl),
                                 "anonymous", sid, t, fl),
                    value, pick, t, fl)

(***************************************************************************)
(* MainAgentService.process_request, as far as it touches the sessions:    *)
(* an empty user id becomes "anonymous"; a ValueError of get_session gives *)
(* the "User authentication failed" response; otherwise the cached session *)
(* object gets the request's context merged in (when not empty) and the    *)
(* request's language, with no write to the store, and the add_message     *)
(* call that follows raises, which the outer except turns into the generic *)
(* error response.                                                         *)
(***************************************************************************)
AgentRet(status, response) ==
    [kind |-> "agent_response", status |-> status, response |-> response]

process_request(w, user_id, context, language, sid, pick, t, fl) ==
    LET request_user_id == IF user_id = "" THEN "anonymous" ELSE user_id
        r == get_session(w, request_user_id, sid, pick, t, fl)
    IN IF r.ret.kind = "raise"
       THEN [r EXCEPT !.ret = AgentRet("error", "User authentication failed")]
       ELSE LET i == CacheIndex(r.w.active_sessions, r.ret.session_id)
                a == add_message(r.w, request_user_id, "query", "user", <<>>)
            IN [r EXCEPT !.w.active_sessions[i].context =
                             IF context = <<>> THEN @ ELSE dict_update(@, context),
                         !.w.active_sessions[i].language_preference = language,
                         !.ret = IF a.ret.kind = "raise"
                                 THEN AgentRet("error", "encountered an error")
                                 ELSE AgentRet("success", "response")]

(***************************************************************************)
(* State.                                                                  *)
(***************************************************************************)
VARIABLES
    active_sessions,   \* SessionService.active_sessions
    store,             \* the documents of sessions_collection, by document id
    now,               \* the value datetime.now() returns
    call               \* the last call made: operation, arguments, result

vars == <<active_sessions, store, now, call>>

World == [active_sessions |-> active_sessions, store |-> store]

\* session ids in use, and the values uuid4 may return
UsedIds == DOMAIN store \cup {active_sessions[i].session_id : i \in 1..Len(active_sessions)}
FreshIds == IF SessionIds \ UsedIds = {} THEN {NoSessionId} ELSE {Min(SessionIds \ UsedIds)}
\* the documents the query for user_id can return first
Picks(user_id) ==
    IF \E d \in DOMAIN store : store[d].user_id = user_id
    THEN {d \in DOMAIN store : store[d].user_id = user_id}
    ELSE {NoSessionId}
OwnerOf(session_id) ==
    IF session_id \in DOMAIN store THEN store[session_id].user_id ELSE ""

\* the call yielding r is made: it needs a fresh uuid4 if it creates a
\* session, and a clock value if it reads the clock
Apply(r, sid, c) ==
    /\ r.created => sid # NoSessionId
    /\ r.clock => now <= MaxTime
    /\ active_sessions' = r.w.active_sessions
    /\ store' = r.w.store
    /\ now' = IF r.clock THEN now + 1 ELSE now
    /\ call' = [c EXCEPT !.ret = r.ret]

Call(op, user_id, session_id, arg) ==
    [op |-> op, user_id |-> user_id, session_id |-> session_id, arg |-> arg,
     ret |-> [kind |-> "none"]]

\* messages of earlier conversations, as add_message's body writes them to
\* the store (timestamps as ISO strings)
M1 == [timestamp |-> isoformat(dt(0)), content |-> "What is photosynthesis?",
       agent_type |-> "user", metadata |-> <<>>]
M2 == [timestamp |-> isoformat(dt(0)), content |-> "Photosynthesis is...",
       agent_type |-> "assistant", metadata |-> [k \in {"language"} |-> "english"]]

\* a document left in the collection before this process started
StoredDoc(user_id, messages) ==
    [session_id |-> 1, user_id |-> user_id, created_at |-> dt(0),
     last_active |-> isoformat(dt(0)), messages |-> messages,
     language_preference |-> "english", context |-> [k \in {"topic"} |-> "v1"]]

\* the contents of the sessions collection when the process starts: empty,
\* or one session of an earlier run
InitStores == {<<>>, (1 :> StoredDoc("u1", <<M1, M2>>))}

\* the message arguments of add_message that are tried
MessageInputs ==
    {[content |-> "What is photosynthesis?", agent_type |-> "user", metadata |-> <<>>],
     [content |-> "And respiration?", agent_type |-> "user", metadata |-> <<>>]}
\* the values of context["last_content_generation"] that generate_content writes
LastGenValues == {"v1"}

\* the values of request.language after language detection
Languages == {"hindi"}
\* the values of request.user_id: none given, and an unregistered one
RequestUserIds == {"", "ghost"}
\* the values of request.context
RequestContexts == {<<>>}

\* SessionService.__init__ : an empty cache in front of the store
Init ==
    /\ active_sessions = <<>>
    /\ store \in InitStores
    /\ now = 1
    /\ call = Call("init", "", NoSessionId, 0)

GetSession ==
    \E user_id \in UserIds :
    \E sid \in FreshIds, pick \in Picks(user_id),
       fl \in Flags({"users_get"}) \cup Flags({"query", "create_set"}) :
        Apply(get_session(World, user_id, sid, pick, now, fl), sid,
              Call("get_session", user_id, NoSessionId, 0))

AddMessage ==
    \E user_id \in NamedUserIds, m \in MessageInputs :
        Apply(add_message(World, user_id, m.content, m.agent_type, m.metadata),
              NoSessionId, Call("add_message", user_id, NoSessionId, m))

GetUserHistory ==
    \E user_id \in NamedUserIds, limit \in 0..MaxLimit :
    \E sid \in FreshIds, pick \in Picks(user_id), fl \in Flags({"users_get"}) \cup Flags({"query"}) :
        Apply(get_user_history(World, user_id, limit, sid, pick, now, fl), sid,
              Call("get_user_history", user_id, NoSessionId, limit))

GetSessionById ==
    \E session_id \in SessionIds \cup {NoSessionId}, user_id \in UserIds,
       fl \in Flags({"doc_get"}) :
        Apply(get_session_by_id(World, session_id, user_id, fl), NoSessionId,
              Call("get_session_by_id", user_id, session_id, 0))

ClearSession ==
    \E user_id \in NamedUserIds :
    \E sid \in FreshIds, pick \in Picks(user_id),
       fl \in Flags({"query", "create_set"}) \cup Flags({"set"}) :
        Apply(clear_session(World, user_id, sid, pick, now, fl), sid,
              Call("clear_session", user_id, NoSessionId, 0))

UpdateSessionContext ==
    \E session_id \in SessionIds \cup {NoSessionId}, context_update \in ContextUpdates :
    \E sid \in FreshIds, pick \in Picks(OwnerOf(session_id)),
       fl \in Flags({"query"}) \cup Flags({"doc_get"}) \cup Flags({"update"}) :
        Apply(update_session_context(World, session_id, context_update, sid, pick, now, fl),
              sid, Call("update_session_context", "", session_id, context_update))

GetAllSessionsForUser ==
    \E user_id \in NamedUserIds, fl \in Flags({"users_get", "list"}) :
        Apply(get_all_sessions_for_user(World, user_id, fl), NoSessionId,
              Call("get_all_sessions_for_user", user_id, NoSessionId, 0))

WorksheetSessionStep ==
    \E user_id \in NamedUserIds :
    \E sid \in FreshIds, pick \in Picks(user_id),
       fl \in Flags({"users_get", "create_set"}) \cup Flags({"query", "create_set"}) :
        Apply(worksheet_session_step(World, user_id, sid, pick, now, fl), sid,
              Call("worksheet_session_step", user_id, NoSessionId, 0))

GenerateContentSessionStep ==
    \E user_id \in NamedUserIds, value \in LastGenValues :
    \E sid \in FreshIds, pick \in Picks(user_id),
       fl \in Flags({"users_get", "create_set"}) \cup Flags({"update"}) :
        Apply(generate_content_session_step(World, user_id, value, sid, pick, now, fl), sid,
              Call("generate_content_session_step", user_id, NoSessionId, 0))

ProcessRequest ==
    \E user_id \in RequestUserIds, context \in RequestContexts,
       language \in Languages :
    \E sid \in FreshIds, pick \in Picks(IF user_id = "" THEN "anonymous" ELSE user_id),
       fl \in Flags({"users_get"}) \cup Flags({"query", "create_set"}) :
        Apply(process_request(World, user_id, context, language, sid, pick, now, fl), sid,
              Call("process_request", user_id, NoSessionId, context))

GetSessionHistory ==
    \E session_id \in SessionIds, user_id \in NamedUserIds, limit \in {1, MaxLimit},
       fl \in Flags({"doc_get"}) :
        Apply(get_session_history(World, session_id, user_id, limit, fl), NoSessionId,
              Call("get_session_history", user_id, session_id, limit))

GetSessionDetails ==
    \E user_id \in NamedUserIds :
    \E sid \in FreshIds, pick \in Picks(user_id), fl \in Flags({"users_get"}) \cup Flags({"query"}) :
        Apply(get_session_details(World, user_id, sid, pick, now, fl), sid,
              Call("get_session_details", user_id, NoSessionId, 0))

Next ==
    \/ GetSession
    \/ AddMessage
    \/ GetUserHistory
    \/ GetSessionById
    \/ ClearSession
    \/ UpdateSessionContext
    \/ GetAllSessionsForUser
    \/ WorksheetSessionStep
    \/ GenerateContentSessionStep
    \/ ProcessRequest
    \/ GetSessionHistory
    \/ GetSessionDetails

Spec == Init /\ [][Next]_vars

(***************************************************************************)
(* Properties.                                                             *)
(***************************************************************************)
CachedIds == {active_sessions[i].session_id : i \in 1..Len(active_sessions)}
Present(session_id) == session_id \in CachedIds \cup DOMAIN store
SessionOwner(session_id) ==
    IF session_id \in CachedIds THEN CacheGet(active_sessions, session_id).user_id
    ELSE OwnerOf(session_id)
\* the user ids get_session accepts when the directory answers
ValidUserIds == users_collection \cup {"anonymous"}

\* C1: get_session_by_id(session_id, user_B) returns not-found whenever the
\* session with that id is owned by a user other than user_B, whether the
\* session is cached or only in the store, under every outcome of the store
\* read; it returns a session only if that session is owned by user_B.
C1_ForeignSessionNotFound ==
    /\ \A session_id \in SessionIds, user_id \in UserIds, fl \in Flags({"doc_get"}) :
         LET r == get_session_by_id(World, session_id, user_id, fl)
         IN /\ (Present(session_id) /\ SessionOwner(session_id) # user_id)
                   => r.ret.kind = "None"
            /\ r.ret.kind = "session"
                   => /\ r.ret.session_id = session_id
                      /\ CacheGet(r.w.active_sessions, session_id).user_id = user_id
    /\ (call.op = "get_session_by_id" /\ call.ret.kind = "session")
          => CacheGet(active_sessions, call.session_id).user_id = call.user_id

\* a call for a session that is only in the store and owned by another user
C1_Witness ==
    /\ call.op = "get_session_by_id"
    /\ call.ret.kind = "None"
    /\ call.user_id # ""
    /\ call.session_id \in DOMAIN store \ CachedIds
    /\ store[call.session_id].user_id # call.user_id

\* C2: after get_session(user_id) has returned a session for a valid user,
\* calling it again at once returns the same session_id, whatever reads and
\* writes of the session store fail in either call.
C2_GetSessionTwice ==
    (call.op = "get_session" /\ call.ret.kind = "session" /\ call.user_id \in ValidUserIds)
       => \A sid \in FreshIds, pick \in Picks(call.user_id), fl \in Flags({"query", "create_set"}) :
            get_session(World, call.user_id, sid, pick, now, fl).ret = call.ret

\* the first call returned a session that it could not write to the store
C2_Witness ==
    /\ call.op = "get_session"
    /\ call.ret.kind = "session"
    /\ call.user_id \in ValidUserIds
    /\ call.ret.session_id \notin DOMAIN store

\* C3: for a non-empty user id that is neither the anonymous sentinel nor in
\* the user directory, get_session raises ValueError and leaves the cache and
\* the store as they were, whatever fails.
C3_UnknownUserRejected ==
    /\ \A user_id \in NamedUserIds \ ValidUserIds :
       \A sid \in FreshIds, pick \in Picks(user_id),
          fl \in Flags({"users_get", "query", "create_set"}) :
            LET r == get_session(World, user_id, sid, pick, now, fl)
            IN r.ret.kind = "raise" /\ r.ret.exc = "ValueError" /\ r.w = World
    /\ (call.op = "get_session" /\ call.user_id \in NamedUserIds \ ValidUserIds)
          => call.ret.kind = "raise"

\* get_session was called for the unregistered user while sessions exist
C3_Witness ==
    /\ call.op = "get_session"
    /\ call.user_id = "ghost"
    /\ call.ret.kind = "raise"
    /\ active_sessions # <<>>

LastN(seq, k) == SubSeq(seq, Len(seq) - k + 1, Len(seq))
MinOf(a, b) == IF a <= b THEN a ELSE b
\* the session get_session finds in the cache for user_id
CurrentId(user_id) == active_sessions[FindByUser(active_sessions, user_id)].session_id
DocsOf(user_id) == {d \in DOMAIN store : store[d].user_id = user_id}
\* FreshIds and Picks of a given state of the cache and the store
FreshIdsIn(w) ==
    LET used == DOMAIN w.store
                  \cup {w.active_sessions[i].session_id : i \in 1..Len(w.active_sessions)}
    IN IF SessionIds \ used = {} THEN {NoSessionId} ELSE {Min(SessionIds \ used)}
PicksIn(w, user_id) ==
    IF \E d \in DOMAIN w.store : w.store[d].user_id = user_id
    THEN {d \in DOMAIN w.store : w.store[d].user_id = user_id}
    ELSE {NoSessionId}
\* old overridden by upd, key by key
Merged(old, upd) ==
    [k \in DOMAIN old \cup DOMAIN upd |-> IF k \in DOMAIN upd THEN upd[k] ELSE old[k]]

\* C4: add_message(user_id, content, agent_type, metadata) for a valid user,
\* followed at once by get_user_history(user_id, 1), yields exactly one
\* message, with the content, agent_type and metadata just appended.
C4_AppendThenHistory ==
    (call.op = "add_message" /\ call.user_id \in ValidUserIds)
       => \A sid \in FreshIds, pick \in Picks(call.user_id) :
            LET h == get_user_history(World, call.user_id, 1, sid, pick, now, NoFail).ret.messages
            IN /\ Len(h) = 1
               /\ h[1].content = call.arg.content
               /\ h[1].agent_type = call.arg.agent_type
               /\ h[1].metadata = call.arg.metadata

\* C5: for a session holding n messages and every limit >= 0,
\* get_user_history(user_id, limit) returns the last min(limit, n) messages
\* of the session, in the order in which they were appended.
C5_HistoryLastMessages ==
    \A user_id \in ValidUserIds, limit \in 0..MaxLimit :
        FindByUser(active_sessions, user_id) # 0
           => LET messages == CacheGet(active_sessions, CurrentId(user_id)).messages
                  r == get_user_history(World, user_id, limit, NoSessionId, NoSessionId,
                                        now, NoFail)
              IN r.ret.messages = LastN(messages, MinOf(limit, Len(messages)))

\* C6: a successful clear_session(user_id) leaves the user with the session
\* get_session returned before it: afterwards get_user_history returns the
\* empty sequence for every limit, get_session returns the session id the
\* clear reports, which is the id of the session the user had in the cache
\* before, and the session is still present.
C6_ClearKeepsSession ==
    [][ (call'.op = "clear_session" /\ call'.ret.status = "success")
          => LET u == call'.user_id
                 s == call'.ret.session_id
                 w == World'
             IN /\ \A limit \in 0..MaxLimit, sid \in FreshIdsIn(w), pick \in PicksIn(w, u),
                      fl \in Flags({"users_get", "query", "create_set"}) :
                        get_user_history(w, u, limit, sid, pick, now', fl).ret.messages = <<>>
                /\ \A sid \in FreshIdsIn(w), pick \in PicksIn(w, u),
                      fl \in Flags({"query", "create_set"}) :
                        get_session(w, u, sid, pick, now', fl).ret = SessionRet(s)
                /\ FindByUser(active_sessions, u) # 0 => CurrentId(u) = s
                /\ s \in DOMAIN w.store \/ CacheIndex(w.active_sessions, s) # 0 ]_vars

\* the session of the earlier run, which held messages, has been cleared in
\* the cache and in the store
C6_Witness ==
    /\ call.op = "clear_session"
    /\ call.ret.status = "success"
    /\ call.ret.session_id = 1
    /\ call.ret.session_id \in DOMAIN store
    /\ store[1].created_at.v = 0
    /\ store[1].messages = <<>>
    /\ CacheGet(active_sessions, 1).messages = <<>>

C8_OneSessionPerUser ==
    \A user_id \in UserIds :
        Cardinality({id \in CachedIds \cup DOMAIN store : SessionOwner(id) = user_id}) <= 1

\* C9: no step lowers the last_active of a session, in the cache or in the
\* store record.
C9_LastActiveMonotone ==
    [][ \A id \in SessionIds :
          /\ id \in CachedIds
                => CacheGet(active_sessions', id).last_active.v
                      >= CacheGet(active_sessions, id).last_active.v
          /\ id \in DOMAIN store
                => store'[id].last_active.v >= store[id].last_active.v ]_vars

\* a session updated at one time and cleared at a later one: the store record
\* carries the time of the clear, the cached session that of the update
C9_Witness ==
    /\ call.op = "clear_session"
    /\ call.ret.status = "success"
    /\ call.ret.session_id \in DOMAIN store
    /\ CacheGet(active_sessions, call.ret.session_id).last_active.v = 1
    /\ store[call.ret.session_id].last_active.v = 2

\* the context of a present session: the cached one, else the stored one
ContextOf(session_id) ==
    IF session_id \in CachedIds THEN CacheGet(active_sessions, session_id).context
    ELSE store[session_id].context

\* C10 as claimed: update_session_context(session_id, context_update) on a
\* present session makes its context the old one overridden by context_update.
C10_UpdateMergesContext ==
    \A session_id \in SessionIds, context_update \in ContextUpdates :
        Present(session_id)
           => \A sid \in FreshIds, pick \in Picks(OwnerOf(session_id)),
                 fl \in Flags({"query", "doc_get", "update"}) :
                LET r == update_session_context(World, session_id, context_update,
                                                sid, pick, now, fl)
                IN /\ CacheIndex(r.w.active_sessions, session_id) # 0
                   /\ CacheGet(r.w.active_sessions, session_id).context
                         = Merged(ContextOf(session_id), context_update)

\* C10 as amended: on a session that is in the cache, and on a session that
\* is only in the store when the call returns it, the context becomes the old
\* one overridden by context_update, last_active becomes the time of the call
\* and nothing else in the cache changes; the store record either stays as it
\* was or takes the context and last_active of the cached session.
C10_UpdateMergesLoadedContext ==
    \A session_id \in SessionIds, context_update \in ContextUpdates :
    \A sid \in FreshIds, pick \in Picks(OwnerOf(session_id)),
       fl \in Flags({"query", "doc_get", "update"}) :
        LET r == update_session_context(World, session_id, context_update,
                                        sid, pick, now, fl)
            i == CacheIndex(active_sessions, session_id)
            merged == Merged(ContextOf(session_id), context_update)
        IN /\ i # 0
                => /\ r.w.active_sessions
                         = [active_sessions EXCEPT ![i].context = merged,
                                                   ![i].last_active = dt(now)]
                   /\ \/ r.w.store = store
                      \/ /\ session_id \in DOMAIN store
                         /\ r.w.store = [store EXCEPT
                                           ![session_id].context = merged,
                                           ![session_id].last_active = isoformat(dt(now))]
           /\ (i = 0 /\ r.ret.kind = "session")
                => /\ CacheGet(r.w.active_sessions, session_id)
                         = [hydrate(session_id, store[session_id]) EXCEPT
                              !.context = merged, !.last_active = dt(now)]
                   /\ r.w.store = [store EXCEPT
                                     ![session_id].context = merged,
                                     ![session_id].last_active = isoformat(dt(now))]

\* an update has overwritten the value of one key and kept another key
C10_Witness ==
    /\ call.op = "update_session_context"
    /\ call.ret.kind = "session"
    /\ call.arg = [k \in {"topic"} |-> "v2"]
    /\ CacheGet(active_sessions, call.session_id).context
          = [k \in CtxKeys |-> IF k = "topic" THEN "v2" ELSE "v1"]
    /\ store[call.session_id].context = CacheGet(active_sessions, call.session_id).context

\* C11: add_message for a valid user returns success with the session id
\* also when its store write fails, and the message it appended is the most
\* recent entry of every later get_user_history(user_id, limit), limit >= 1.
C11_FailedWriteKeepsAppend ==
    (call.op = "add_message" /\ call.user_id \in ValidUserIds)
       => /\ call.ret.kind = "session_id"
          /\ \A limit \in 1..MaxLimit, sid \in FreshIds, pick \in Picks(call.user_id),
                fl \in Flags({"query", "create_set"}) :
               LET h == get_user_history(World, call.user_id, limit, sid, pick, now, fl).ret.messages
               IN /\ Len(h) >= 1
                  /\ h[Len(h)].content = call.arg.content
                  /\ h[Len(h)].agent_type = call.arg.agent_type

\* C12: under every pattern of failures of the session store (document
\* read, query, set, update, list), none of get_session, add_message,
\* update_session_context, clear_session, get_session_by_id,
\* get_all_sessions_for_user and get_user_history raises for a valid user.
C12_NoStoreFailureEscapes ==
    \A user_id \in ValidUserIds, sid \in FreshIds :
    \A pick \in Picks(user_id) :
        /\ \A fl \in Flags({"query", "create_set", "set"}) :
             /\ get_session(World, user_id, sid, pick, now, fl).ret.kind # "raise"
             /\ clear_session(World, user_id, sid, pick, now, fl).ret.kind # "raise"
             /\ get_user_history(World, user_id, 1, sid, pick, now, fl).ret.kind # "raise"
        /\ \A fl \in Flags({"doc_get", "list"}), session_id \in SessionIds :
             /\ get_session_by_id(World, session_id, user_id, fl).ret.kind # "raise"
             /\ get_all_sessions_for_user(World, user_id, fl).ret.kind # "raise"
        /\ \A fl \in Flags({"query", "doc_get", "update"}), session_id \in SessionIds,
              context_update \in ContextUpdates :
             update_session_context(World, session_id, context_update, sid,
                                    pick, now, fl).ret.kind # "raise"
        /\ \A m \in MessageInputs :
             add_message(World, user_id, m.content, m.agent_type, m.metadata).ret.kind # "raise"

\* C13: when the store query of get_session fails for a valid user with no
\* cached session, the call returns a fresh session that is only in the
\* cache: the store is as it was before the call.
C13_LookupFailureMemoryOnly ==
    \A user_id \in ValidUserIds, sid \in FreshIds \ {NoSessionId},
       fl \in Flags({"query", "create_set"}) :
        (FindByUser(active_sessions, user_id) = 0 /\ fl["query"])
           => LET r == get_session(World, user_id, sid, NoSessionId, now, fl)
              IN /\ r.ret = SessionRet(sid)
                 /\ CacheIndex(r.w.active_sessions, sid) # 0
                 /\ r.w.store = store

\* the cache and the store with the session session_id taken out
WithoutSession(w, session_id) ==
    [active_sessions |-> SelectSeq(w.active_sessions, LAMBDA x : x.session_id # session_id),
     store |-> [d \in DOMAIN w.store \ {session_id} |-> w.store[d]]]

\* C14: for a session owned by another user, get_session_by_id and
\* get_session_history return the same not-found result, and change the
\* cache and the store as little, as in the state that differs only in that
\* session not existing; and every later call of that caller (get_session,
\* get_user_history, get_all_sessions_for_user, get_session_by_id) returns
\* the same in both states and leaves them differing in that session only.
C14_ForeignSessionIndistinguishable ==
    \A session_id \in SessionIds, user_id \in NamedUserIds :
        (Present(session_id) /\ SessionOwner(session_id) # user_id)
           => LET w0 == WithoutSession(World, session_id)
              IN /\ \A fl \in Flags({"doc_get"}) :
                      LET r1 == get_session_by_id(World, session_id, user_id, fl)
                          r0 == get_session_by_id(w0, session_id, user_id, fl)
                      IN /\ r1.ret = NoneRet /\ r0.ret = NoneRet
                         /\ r1.w = World /\ r0.w = w0
                 /\ \A fl \in Flags({"doc_get"}), limit \in 1..MaxLimit :
                      LET h1 == get_session_history(World, session_id, user_id, limit, fl)
                          h0 == get_session_history(w0, session_id, user_id, limit, fl)
                      IN /\ h1.ret = NoneRet /\ h0.ret = NoneRet
                         /\ h1.w = World /\ h0.w = w0
                 /\ \A sid \in FreshIds, pick \in Picks(user_id),
                       fl \in Flags({"users_get", "query", "create_set"}) :
                      LET g1 == get_session(World, user_id, sid, pick, now, fl)
                          g0 == get_session(w0, user_id, sid, pick, now, fl)
                      IN /\ g1.ret = g0.ret
                         /\ WithoutSession(g1.w, session_id) = g0.w
                         /\ \A limit \in 0..MaxLimit :
                              get_user_history(World, user_id, limit, sid, pick, now, fl).ret
                                 = get_user_history(w0, user_id, limit, sid, pick, now, fl).ret
                 /\ \A fl \in Flags({"users_get", "list"}) :
                      get_all_sessions_for_user(World, user_id, fl).ret
                         = get_all_sessions_for_user(w0, user_id, fl).ret
                 /\ \A other \in SessionIds, fl \in Flags({"doc_get"}) :
                      get_session_by_id(World, other, user_id, fl).ret
                         = get_session_by_id(w0, other, user_id, fl).ret

\* a valid user has asked for the history of a session that is only in the
\* store and is owned by another user, and was told it does not exist
C14_Witness ==
    /\ call.op = "get_session_history"
    /\ call.ret = NoneRet
    /\ call.user_id \in ValidUserIds
    /\ call.session_id \in DOMAIN store \ CachedIds
    /\ store[call.session_id].user_id \notin {call.user_id, ""}

\* C15: no step changes the user_id of a session, in the cache or in the
\* store record, and a session that is in both has the same user_id in both.
C15_OwnerNeverChanges ==
    [][ \A id \in SessionIds :
          /\ id \in CachedIds
                => CacheGet(active_sessions', id).user_id = CacheGet(active_sessions, id).user_id
          /\ id \in DOMAIN store => store'[id].user_id = store[id].user_id
          /\ (CacheIndex(active_sessions', id) # 0 /\ id \in DOMAIN store')
                => CacheGet(active_sessions', id).user_id = store'[id].user_id ]_vars

\* a session of an earlier run has been loaded into the cache and its store
\* record rewritten by a clear, the owner being the same in both
C15_Witness ==
    /\ call.op = "clear_session"
    /\ call.ret.status = "success"
    /\ call.ret.session_id \in DOMAIN store
    /\ store[call.ret.session_id].created_at = isoformat(dt(0))
    /\ store[call.ret.session_id].user_id = call.user_id
    /\ CacheGet(active_sessions, call.ret.session_id).user_id = call.user_id

\* C16: get_session reports an empty user id and an unknown user id as two
\* outcomes that differ in more than the text of the message.
C16_EmptyAndUnknownDistinct ==
    \A user_id \in NamedUserIds \ ValidUserIds, fl \in Flags({"users_get"}) :
        LET e == get_session(World, "", NoSessionId, NoSessionId, now, fl).ret
            u == get_session(World, user_id, NoSessionId, NoSessionId, now, fl).ret
        IN [kind |-> e.kind, exc |-> e.exc] # [kind |-> u.kind, exc |-> u.exc]

\* C17: get_session("anonymous") returns a session under every outcome of
\* the user-directory read and of the store calls, the result being the one
\* it gives when the directory answers; process_request without a user id
\* never gives the authentication failure.
C17_AnonymousNeverValidated ==
    /\ \A sid \in FreshIds, pick \in Picks("anonymous"),
          fl \in Flags({"users_get", "query", "create_set"}) :
            LET r == get_session(World, "anonymous", sid, pick, now, fl)
            IN /\ r.ret.kind = "session"
               /\ r = get_session(World, "anonymous", sid, pick, now,
                                  [fl EXCEPT !["users_get"] = FALSE])
               /\ process_request(World, "", <<>>, "hindi", sid, pick, now, fl).ret.response
                     # "User authentication failed"
    /\ (call.op = "get_session" /\ call.user_id = "anonymous") => call.ret.kind = "session"

\* a request without a user id has been served on a session of "anonymous"
C17_Witness ==
    /\ call.op = "process_request"
    /\ call.user_id = ""
    /\ call.ret.response # "User authentication failed"
    /\ FindByUser(active_sessions, "anonymous") # 0
    /\ active_sessions[FindByUser(active_sessions, "anonymous")].language_preference = "hindi"

\* the fields of a session that clear_session is said to leave alone
KeptFields(x) ==
    [session_id |-> x.session_id, user_id |-> x.user_id, created_at |-> x.created_at.v,
     language_preference |-> x.language_preference, context |-> x.context]

\* C18 as claimed: a successful clear_session leaves the context, language
\* preference, session id, owner and created_at of the user's session as
\* they were, in the cache and in the store record.
C18_ClearChangesOnlyMessages ==
    [][ (call'.op = "clear_session" /\ call'.ret.status = "success")
          => LET s == call'.ret.session_id
             IN /\ s \in CachedIds
                     => KeptFields(CacheGet(active_sessions', s))
                           = KeptFields(CacheGet(active_sessions, s))
                /\ s \in DOMAIN store => KeptFields(store'[s]) = KeptFields(store[s]) ]_vars

\* C18 as amended: a successful clear_session changes nothing in the cached
\* session but its messages, which become empty; the store record either
\* stays as it was (the write failed) or becomes the cached session with the
\* time of the clear as last_active, so that its context, language
\* preference, id, owner and created_at are those of the record before the
\* call whenever the record agreed with the cached session on them.
C18_ClearKeepsCachedFields ==
    [][ (call'.op = "clear_session" /\ call'.ret.status = "success")
          => LET s == call'.ret.session_id
                 after == CacheGet(active_sessions', s)
             IN /\ s \in CachedIds
                     => after = [CacheGet(active_sessions, s) EXCEPT !.messages = <<>>]
                /\ (s \notin CachedIds /\ s \in DOMAIN store)
                     => after = [hydrate(s, store[s]) EXCEPT !.messages = <<>>]
                /\ s \in DOMAIN store'
                     => \/ s \in DOMAIN store /\ store'[s] = store[s]
                        \/ store'[s] = [after EXCEPT !.created_at = isoformat(@),
                                                     !.last_active = isoformat(dt(now))]
                /\ (/\ s \in CachedIds
                    /\ s \in DOMAIN store
                    /\ KeptFields(store[s]) = KeptFields(CacheGet(active_sessions, s)))
                     => KeptFields(store'[s]) = KeptFields(store[s]) ]_vars

\* a session whose language preference was changed in the cache only has
\* been cleared: the store record now carries the cached language
C18_Witness ==
    /\ call.op = "clear_session"
    /\ call.ret.status = "success"
    /\ call.ret.session_id \in DOMAIN store
    /\ store[call.ret.session_id].language_preference = "hindi"
    /\ CacheGet(active_sessions, call.ret.session_id).language_preference = "hindi"
    /\ store[call.ret.session_id].messages = <<>>

\* C19: for a valid user with no session in the cache or the store, and no
\* call failing, get_session returns a session with an unused id, created_at
\* equal to last_active, no messages, language preference "english" and an
\* empty context, cached, and the store holds the record of that session.
C19_NewSessionPersisted ==
    \A user_id \in ValidUserIds, sid \in FreshIds \ {NoSessionId} :
        (FindByUser(active_sessions, user_id) = 0 /\ DocsOf(user_id) = {})
           => LET r == get_session(World, user_id, sid, NoSessionId, now, NoFail)
                  c == CacheGet(r.w.active_sessions, sid)
              IN /\ r.ret = SessionRet(sid)
                 /\ sid \notin UsedIds
                 /\ c = [session_id |-> sid, user_id |-> user_id,
                         created_at |-> dt(now), last_active |-> dt(now),
                         messages |-> <<>>, language_preference |-> "english",
                         context |-> <<>>]
                 /\ sid \in DOMAIN r.w.store
                 /\ r.w.store[sid].user_id = user_id
                 /\ hydrate(sid, r.w.store[sid]) = c

\* the registered user has been given a new session, which is in the cache
\* and in the store with the same fields
C19_Witness ==
    /\ call.op = "get_session"
    /\ call.user_id \in users_collection
    /\ call.ret.kind = "session"
    /\ call.ret.session_id \in DOMAIN store
    /\ DocsOf(call.user_id) = {call.ret.session_id}
    /\ CacheGet(active_sessions, call.ret.session_id).created_at.v >= 1
    /\ CacheGet(active_sessions, call.ret.session_id).messages = <<>>
    /\ hydrate(call.ret.session_id, store[call.ret.session_id])
          = CacheGet(active_sessions, call.ret.session_id)

\* C20, the part that every interleaving of the two calls shares: two
\* add_message calls for the same valid user with two different messages, the
\* second completing right after the first, both return success with the session id, and the store
\* record of the session then holds the message of the call that wrote last
\* (the lost update being the case where it holds that message only).
C20_BothAppendsSucceed ==
    [][ (/\ call.op = "add_message"
         /\ call'.op = "add_message"
         /\ call'.user_id = call.user_id
         /\ call'.arg # call.arg
         /\ call.user_id \in ValidUserIds)
          => /\ call.ret.kind = "session_id"
             /\ call'.ret.kind = "session_id"
             /\ \E id \in DOMAIN store' :
                  /\ store'[id].user_id = call.user_id
                  /\ \E i \in 1..Len(store'[id].messages) :
                       store'[id].messages[i].content \in {call.arg.content, call'.arg.content}
       ]_vars

\* the last_active of the session a get_session for user_id returns in w
LastActiveSeen(w, user_id, t) ==
    LET g == get_session(w, user_id, NoSessionId, NoSessionId, t, NoFail)
    IN CacheGet(g.w.active_sessions, g.ret.session_id).last_active

\* C21: after a successful clear_session, a successful
\* update_session_context and an add_message for a valid user, the session a
\* following get_session returns has the time of that call as last_active.
C21_MutationSetsLastActive ==
    [][ /\ (call'.op = "clear_session" /\ call'.ret.status = "success")
             => LastActiveSeen(World', call'.user_id, now') = dt(now)
        /\ (call'.op = "update_session_context" /\ call'.ret.kind = "session")
             => CacheGet(active_sessions', call'.session_id).last_active = dt(now)
        /\ (/\ call'.op = "add_message"
            /\ call'.user_id \in ValidUserIds
            /\ FindByUser(active_sessions', call'.user_id) # 0)
             => LastActiveSeen(World', call'.user_id, now') = dt(now) ]_vars

\* C22: update_session_context on a session that is in the cache returns
\* the session, the cached context being the old one overridden by the
\* update, also when the store update fails or the session has no record in
\* the store.
C22_CachedUpdateReturnsSession ==
    \A session_id \in CachedIds, context_update \in ContextUpdates,
       fl \in Flags({"update"}) :
        LET r == update_session_context(World, session_id, context_update,
                                        NoSessionId, NoSessionId, now, fl)
        IN /\ r.ret = SessionRet(session_id)
           /\ CacheGet(r.w.active_sessions, session_id).context
                 = Merged(CacheGet(active_sessions, session_id).context, context_update)

\* C23: no step takes a session out of the cache or out of the store: a
\* session id that is present stays present.
C23_SessionNeverAbsent ==
    [][ \A id \in SessionIds :
          /\ id \in CachedIds => CacheIndex(active_sessions', id) # 0
          /\ id \in DOMAIN store => id \in DOMAIN store' ]_vars

\* two sessions are in the cache and in the store, one of them just cleared
C23_Witness ==
    /\ call.op = "clear_session"
    /\ call.ret.status = "success"
    /\ Cardinality(CachedIds) = 2
    /\ Cardinality(DOMAIN store) = 2
    /\ store[call.ret.session_id].messages = <<>>

IsPrefix(a, b) == Len(a) <= Len(b) /\ SubSeq(b, 1, Len(a)) = a

\* the messages get_user_history shows user_id in w, the limit being larger
\* than the number of messages
SeenMessages(w, user_id, t) ==
    get_user_history(w, user_id, MaxLimit, NoSessionId, NoSessionId, t, NoFail).ret.messages

\* C24 as claimed: over every step that is not a clear_session of the user,
\* the messages get_user_history shows the user before the step are a prefix
\* of those it shows after.
C24_HistoryOnlyGrows ==
    [][ \A user_id \in ValidUserIds :
          ~(call'.op = "clear_session" /\ call'.user_id = user_id)
             => IsPrefix(SeenMessages(World, user_id, now),
                         SeenMessages(World', user_id, now')) ]_vars

\* C24 as amended: over every step that changes the cache or the store and
\* is not a clear_session of that session, the messages of a session, in the cache and in the store record,
\* before the step are a prefix of those after; a session loaded from the
\* store gets the stored messages in their order; and for a user who has a
\* session in the cache, the messages of the session get_session finds for
\* the user (those get_user_history shows) before a step that is not a
\* clear_session of the user are a prefix of those after.
C24_SessionMessagesOnlyGrow ==
    [][ (active_sessions' # active_sessions \/ store' # store) =>
        /\ \A id \in SessionIds :
             LET cleared == /\ call'.op = "clear_session"
                            /\ call'.ret.status = "success"
                            /\ call'.ret.session_id = id
             IN ~cleared
                  => /\ id \in CachedIds
                          => IsPrefix(CacheGet(active_sessions, id).messages,
                                      CacheGet(active_sessions', id).messages)
                     /\ id \in DOMAIN store
                          => IsPrefix(store[id].messages, store'[id].messages)
                     /\ (id \in DOMAIN store \ CachedIds
                           /\ CacheIndex(active_sessions', id) # 0)
                          => CacheGet(active_sessions', id).messages
                                = [i \in 1..Len(store[id].messages) |->
                                     [store[id].messages[i] EXCEPT
                                        !.timestamp = fromisoformat(@)]]
        /\ \A user_id \in ValidUserIds :
             (/\ FindByUser(active_sessions, user_id) # 0
              /\ ~(call'.op = "clear_session" /\ call'.user_id = user_id))
               => /\ FindByUser(active_sessions', user_id) # 0
                  /\ IsPrefix(active_sessions[FindByUser(active_sessions, user_id)].messages,
                              active_sessions'[FindByUser(active_sessions', user_id)].messages)
       ]_vars

\* a session with messages has had its context updated and still has them
C24_Witness ==
    /\ call.op = "update_session_context"
    /\ call.ret.kind = "session"
    /\ Len(CacheGet(active_sessions, call.session_id).messages) = 2
    /\ Len(store[call.session_id].messages) = 2
    /\ SeenMessages(World, CacheGet(active_sessions, call.session_id).user_id, now)
          = CacheGet(active_sessions, call.session_id).messages

(***************************************************************************)
(* The calls each method makes on sessions_collection: reads are           *)
(* document(...).get() and where(...).stream(), writes are set() and       *)
(* update(), counted whether or not they raise.                            *)
(***************************************************************************)
StoreCalls(reads, writes) == [reads |-> reads, writes |-> writes]

\* get_session counting the query twice
get_session_calls_requery(w, user_id, fl) ==
    IF user_id = "" \/ (user_id # "anonymous" /\ ~user_exists(user_id, fl))
    THEN StoreCalls(0, 0)
    ELSE IF FindByUser(w.active_sessions, user_id) # 0
    THEN StoreCalls(0, 0)
    ELSE IF fl["query"]
    THEN StoreCalls(2, 1)
    ELSE IF \E d \in DOMAIN w.store : w.store[d].user_id = user_id
    THEN StoreCalls(2, 0)
    ELSE StoreCalls(2, 1)

\* get_session: the query of line 61, and the set of create_session (130)
get_session_calls(w, user_id, fl) ==
    IF user_id = "" \/ (user_id # "anonymous" /\ ~user_exists(user_id, fl))
    THEN StoreCalls(0, 0)
    ELSE IF FindByUser(w.active_sessions, user_id) # 0
    THEN StoreCalls(0, 0)
    ELSE IF fl["query"]
    THEN StoreCalls(1, 1)
    ELSE IF \E d \in DOMAIN w.store : w.store[d].user_id = user_id
    THEN StoreCalls(1, 0)
    ELSE StoreCalls(1, 1)

\* update_session_context: the document get of line 172, the calls of
\* get_session (178), the update of line 202
update_session_context_calls(w, session_id, sid, pick, t, fl) ==
    IF CacheIndex(w.active_sessions, session_id) # 0
    THEN StoreCalls(0, 1)
    ELSE IF fl["doc_get"] \/ session_id \notin DOMAIN w.store
    THEN StoreCalls(1, 0)
    ELSE LET owner == w.store[session_id].user_id
             g == get_session_calls(w, owner, fl)
             r == get_session(w, owner, sid, pick, t, fl)
         IN IF r.ret.kind = "raise"
            THEN StoreCalls(1, 0)
            ELSE StoreCalls(1 + g.reads,
                            g.writes + IF CacheIndex(r.w.active_sessions, session_id) # 0
                                       THEN 1 ELSE 0)

\* clear_session: the calls of get_session (370), the set of line 383
clear_session_calls(w, user_id, fl) ==
    LET g == get_session_calls(w, user_id, fl)
    IN IF user_id = "" \/ (user_id # "anonymous" /\ ~user_exists(user_id, fl))
       THEN StoreCalls(0, 0)
       ELSE StoreCalls(g.reads, g.writes + 1)

\* get_session_by_id: the document get of line 312
get_session_by_id_calls(w, session_id, user_id) ==
    IF session_id = NoSessionId \/ user_id = "" THEN StoreCalls(0, 0)
    ELSE IF CacheIndex(w.active_sessions, session_id) # 0 THEN StoreCalls(0, 0)
    ELSE StoreCalls(1, 0)

\* get_all_sessions_for_user: the query of line 460
get_all_sessions_for_user_calls(user_id, fl) ==
    IF user_id = "" \/ (user_id # "anonymous" /\ ~user_exists(user_id, fl))
    THEN StoreCalls(0, 0)
    ELSE StoreCalls(1, 0)

AtMost(c, reads, writes) == c.reads <= reads /\ c.writes <= writes

\* C25 as claimed: get_session, get_user_history, update_session_context,
\* clear_session, get_session_by_id and get_all_sessions_for_user each make
\* at most one read and at most one write on the session store per call
\* (add_message makes none).
C25_OneReadOneWrite ==
    \A user_id \in UserIds, fl \in Flags({"users_get", "query", "doc_get"}) :
        /\ AtMost(get_session_calls(World, user_id, fl), 1, 1)
        /\ AtMost(clear_session_calls(World, user_id, fl), 1, 1)
        /\ AtMost(get_all_sessions_for_user_calls(user_id, fl), 1, 1)
        /\ \A session_id \in SessionIds :
             /\ AtMost(get_session_by_id_calls(World, session_id, user_id), 1, 1)
             /\ \A sid \in FreshIds, pick \in Picks(OwnerOf(session_id)) :
                  AtMost(update_session_context_calls(World, session_id, sid, pick, now, fl),
                         1, 1)

\* C25 as amended: get_session and get_user_history make at most one read
\* and one write, get_session_by_id and get_all_sessions_for_user at most one
\* read and no write, update_session_context at most two reads and one
\* write, clear_session at most one read and two writes.
C25_StoreCallsBounded ==
    \A user_id \in UserIds, fl \in Flags({"users_get", "query", "doc_get"}) :
        /\ AtMost(get_session_calls(World, user_id, fl), 1, 1)
        /\ AtMost(clear_session_calls(World, user_id, fl), 1, 2)
        /\ AtMost(get_all_sessions_for_user_calls(user_id, fl), 1, 0)
        /\ \A session_id \in SessionIds :
             /\ AtMost(get_session_by_id_calls(World, session_id, user_id), 1, 0)
             /\ \A sid \in FreshIds, pick \in Picks(OwnerOf(session_id)) :
                  AtMost(update_session_context_calls(World, session_id, sid, pick, now, fl),
                         2, 1)

\* the first call on a session of an earlier run was an update with an empty
\* map, which read the document, queried for the owner and wrote the update
C25_Witness ==
    /\ call.op = "update_session_context"
    /\ call.ret.kind = "session"
    /\ call.arg = <<>>
    /\ now = 2
    /\ Len(active_sessions) = 1
    /\ active_sessions[1].created_at = dt(0)
    /\ store[call.session_id].last_active = isoformat(dt(1))

\* C26: whenever update_session_context returns not-found, the context and
\* the last_active of every session in the cache and in the store are the
\* same after the call as before it.
C26_NotFoundChangesNothing ==
    \A session_id \in SessionIds \cup {NoSessionId}, context_update \in ContextUpdates :
    \A sid \in FreshIds, pick \in Picks(OwnerOf(session_id)),
       fl \in Flags({"query", "doc_get", "update"}) :
        LET r == update_session_context(World, session_id, context_update,
                                        sid, pick, now, fl)
        IN r.ret = NoneRet
             => /\ \A id \in CachedIds :
                     /\ CacheGet(r.w.active_sessions, id).context
                           = CacheGet(active_sessions, id).context
                     /\ CacheGet(r.w.active_sessions, id).last_active
                           = CacheGet(active_sessions, id).last_active
                /\ \A id \in DOMAIN store :
                     /\ r.w.store[id].context = store[id].context
                     /\ r.w.store[id].last_active = store[id].last_active

\* C27: every session in the cache or the store is owned by "anonymous" or
\* by a user of the user directory.
C27_OwnersAreValidUsers ==
    \A id \in CachedIds \cup DOMAIN store : SessionOwner(id) \in ValidUserIds

\* C28: after an add_message for a valid user with the store working, the
\* user's session is in the cache and in the store, and the messages of the
\* store record are those of the cached session, the new one included.
C28_AppendWritesWholeRecord ==
    (call.op = "add_message" /\ call.user_id \in ValidUserIds)
       => /\ FindByUser(active_sessions, call.user_id) # 0
          /\ CurrentId(call.user_id) \in DOMAIN store
          /\ hydrate(CurrentId(call.user_id), store[CurrentId(call.user_id)]).messages
                = CacheGet(active_sessions, CurrentId(call.user_id)).messages
          /\ \E i \in 1..Len(store[CurrentId(call.user_id)].messages) :
               store[CurrentId(call.user_id)].messages[i].content = call.arg.content

\* C29 as stated: once get_session(u) has returned session id s, every later
\* get_session(u) returns s, whatever store reads or writes fail: while u
\* has a cached session, get_session(u) returns the first cached session of
\* u under every failure of the user lookup, the store query and the store
\* set, and the first cached session of u stays the first in every step.
C29_AlwaysReturnsSame ==
    /\ [](\A u \in ValidUserIds :
            FindByUser(active_sessions, u) # 0
              => \A fl \in Flags({"users_get", "query", "create_set"}) :
                 \A sid \in FreshIds, pick \in Picks(u) :
                   get_session(World, u, sid, pick, now, fl).ret
                      = SessionRet(CurrentId(u)))
    /\ [][ \A u \in ValidUserIds :
             FindByUser(active_sessions, u) # 0
               => /\ FindByUser(active_sessions', u) # 0
                  /\ CurrentId(u)' = CurrentId(u)
         ]_vars

\* C29 amended: once get_session(u) has returned session id s, every later
\* get_session(u) that returns a session returns s, and it returns one
\* unless the user lookup fails for a user other than "anonymous", when it
\* raises ValueError and changes nothing.  Stated as three facts that give
\* it by induction: the session get_session(u) returns is the first cached
\* session of u; the first cached session of u stays the first in every
\* step; while u has a cached session, get_session(u) returns the first one
\* under every failure of the store query and of the store set.
C29_SessionIdStable ==
    /\ [](\A u \in ValidUserIds :
            FindByUser(active_sessions, u) # 0
              => \A fl \in Flags({"users_get", "query", "create_set"}) :
                 \A sid \in FreshIds, pick \in Picks(u) :
                   LET r == get_session(World, u, sid, pick, now, fl)
                   IN IF fl["users_get"] /\ u # "anonymous"
                      THEN /\ r.ret.kind = "raise"
                           /\ r.ret.exc = "ValueError"
                           /\ r.w = World
                      ELSE r.ret = SessionRet(CurrentId(u)))
    /\ [][ \A u \in ValidUserIds :
             /\ (call'.op = "get_session" /\ call'.user_id = u
                   /\ call'.ret.kind = "session")
                   => /\ FindByUser(active_sessions', u) # 0
                      /\ active_sessions'[FindByUser(active_sessions', u)].session_id
                            = call'.ret.session_id
             /\ FindByUser(active_sessions, u) # 0
                   => /\ FindByUser(active_sessions', u) # 0
                      /\ active_sessions'[FindByUser(active_sessions', u)].session_id
                            = CurrentId(u)
         ]_vars

\* a get_session(u) has returned the first cached session of u while the
\* cache holds a second, later session of u (made by a handler's direct
\* create_session)
C29_Witness ==
    /\ call.op = "get_session"
    /\ call.ret.kind = "session"
    /\ FindByUser(active_sessions, call.user_id) # 0
    /\ call.ret.session_id = CurrentId(call.user_id)
    /\ \E i \in 1..Len(active_sessions) :
         /\ active_sessions[i].user_id = call.user_id
         /\ active_sessions[i].session_id # call.ret.session_id

\* the read operations of the Session Manager
ReadOps == {"get_user_history", "get_session_by_id",
            "get_all_sessions_for_user", "get_session_details"}

\* a read leaves every session of the cache and every record of the store as
\* it was, and a stored session it caches has the fields of its record
ReadKeepsSessions ==
    /\ \A id \in CachedIds :
         /\ CacheIndex(active_sessions', id) # 0
         /\ CacheGet(active_sessions', id) = CacheGet(active_sessions, id)
    /\ \A id \in DOMAIN store :
         /\ id \in DOMAIN store'
         /\ store'[id] = store[id]
         /\ (id \notin CachedIds /\ CacheIndex(active_sessions', id) # 0)
               => CacheGet(active_sessions', id) = hydrate(id, store[id])

\* C30 as stated: the read operations get_user_history, get_session_by_id,
\* get_all_sessions_for_user and get_session_details never change the
\* messages, context, language preference or last_active of an existing
\* session, in the cache or in the store, and never add a record to the store.
C30_ReadsChangeNothing ==
    [][ call'.op \in ReadOps
          => /\ ReadKeepsSessions
             /\ DOMAIN store' = DOMAIN store ]_vars

\* C30 amended: the read operations never change an existing session, in the
\* cache or in the store; get_session_by_id and get_all_sessions_for_user
\* never write the store; get_user_history and get_session_details add at
\* most one session, only for a valid user who has no cached session, and the
\* session they add is a new empty one of that user.
C30_ReadsKeepExistingSessions ==
    [][ call'.op \in ReadOps
          => /\ ReadKeepsSessions
             /\ call'.op \in {"get_session_by_id", "get_all_sessions_for_user"}
                   => store' = store
             /\ \A id \in DOMAIN store' \ DOMAIN store :
                   /\ DOMAIN store' \ DOMAIN store = {id}
                   /\ call'.user_id \in ValidUserIds
                   /\ FindByUser(active_sessions, call'.user_id) = 0
                   /\ id \notin CachedIds
                   /\ store'[id].user_id = call'.user_id
                   /\ store'[id].messages = <<>>
                   /\ store'[id].context = <<>>
                   /\ store'[id].language_preference = "english"
      ]_vars

\* get_session_details has answered for a session that has messages and a
\* record in the store
C30_Witness ==
    /\ call.op = "get_session_details"
    /\ call.ret.status = "success"
    /\ call.ret.message_count > 0
    /\ call.ret.session_id \in DOMAIN store

=============================================================================
